---------------------------- MODULE Spec2Model ----------------------------
(***************************************************************************)
(* A model of the word-wheel helper: the pure solver (solver/solver.py),   *)
(* the dictionary loader, and the command line pipeline of main.py         *)
(* (prefilter, hunspell oracle, report).                                   *)
(*                                                                         *)
(* Text is modelled as Python models it: a str is a sequence of code       *)
(* points (natural numbers), a bytes object a sequence of octets.          *)
(***************************************************************************)
EXTENDS Integers, Sequences, FiniteSets, TLC

VARIABLES
    (* solve_candidates(allowed, mandatory, candidates) *)
    sc_pc,          \* "start", "loop", "done", "raised"
    sc_allowed,     \* argument allowed, as passed
    sc_mandatory,   \* argument mandatory, as passed
    sc_candidates,  \* argument candidates (the iterable, as a list)
    sc_al,          \* local allowed after lower().strip()
    sc_ma,          \* local mandatory after lower().strip()
    sc_idx,         \* number of candidates the for loop has consumed
    sc_valid,       \* local list valid
    sc_pangrams,    \* local list pangrams
    sc_result,      \* the returned dict
    sc_error,       \* the ValueError message raised, or "none"
    (* load_base_words(dic_path, encodings) *)
    lb_pc,          \* "idle", "try", "norm", "done"
    lb_bytes,       \* the octets of the file at dic_path
    lb_encodings,   \* argument encodings
    lb_tried,       \* number of encodings the for loop has tried
    lb_lines,       \* local lines (a list of str)
    lb_li,          \* number of lines the second for loop has consumed
    lb_words,       \* local set words
    lb_result,      \* the returned list
    (* main() and solve() of main.py *)
    m_pc,           \* "idle", "main", "argv", "load", "loading", "solve",
                    \* "prefilter", "report", "returned", "exit"
    m_env,          \* the machine: is a dictionary found, is it readable,
                    \* is hunspell installed, the octets of the .dic file,
                    \* HUNSPELL_DIC_ENCODINGS
    m_argv,         \* sys.argv[1:]
    m_allowed,      \* solve's argument allowed
    m_mandatory,    \* solve's argument mandatory
    m_min_len,      \* MINLEN
    m_filter,       \* FILTER_REASONABLE
    m_blacklist,    \* the words of the blacklist file
    m_base_words,   \* solve's argument base_words
    m_al,           \* solve's local allowed after lower().strip()
    m_ma,           \* solve's local mandatory after lower().strip()
    m_bi,           \* number of base words the prefilter loop has consumed
    m_candidates,   \* solve's local candidates
    m_launches,     \* number of calls of subprocess.run
    m_payload,      \* the text sent to hunspell's stdin
    m_stdout,       \* the octets hunspell wrote to stdout
    m_accepted,     \* the set hunspell_filter_valid returned
    m_valid,        \* solve's local valid
    m_pangrams,     \* solve's local pangrams
    m_longest,      \* the longest words printed
    m_status,       \* the exit status of the process, -1 while it runs
    m_stderr        \* how the process ended: "none", "usage", "message"
                    \* (sys.exit with a text) or "traceback"

sc_vars == <<sc_pc, sc_allowed, sc_mandatory, sc_candidates, sc_al, sc_ma,
             sc_idx, sc_valid, sc_pangrams, sc_result, sc_error>>

lb_vars == <<lb_pc, lb_bytes, lb_encodings, lb_tried, lb_lines, lb_li,
             lb_words, lb_result>>

m_vars == <<m_pc, m_env, m_argv, m_allowed, m_mandatory, m_min_len, m_filter,
            m_blacklist, m_base_words, m_al, m_ma, m_bi, m_candidates,
            m_launches, m_payload, m_stdout, m_accepted, m_valid, m_pangrams,
            m_longest, m_status, m_stderr>>

vars == <<sc_vars, lb_vars, m_vars>>

---------------------------------------------------------------------------
(* Bounds of the model. *)

\* longest candidates list passed to solve_candidates
MaxCands == 3

\* greatest number of chunks a dictionary file is put together from
MaxChunks == 3

\* longest base_words list passed to solve
MaxBase == 2

\* greatest number of chunks hunspell's output is put together from, where
\* hunspell_filter_valid is called alone
MaxOut == 3

\* the same, in a run of solve
MaxReply == 2

\* longest words list passed to hunspell_filter_valid called alone
MaxWords == 2

---------------------------------------------------------------------------
(* Characters.  Ord gives the code point of the characters the inputs of   *)
(* the model are written with.                                             *)

LowerNames == <<"a","b","c","d","e","f","g","h","i","j","k","l","m",
                "n","o","p","q","r","s","t","u","v","w","x","y","z">>

UpperNames == <<"A","B","C","D","E","F","G","H","I","J","K","L","M",
                "N","O","P","Q","R","S","T","U","V","W","X","Y","Z">>

OtherOrd == ("tab" :> 9) @@ ("nl" :> 10) @@ ("cr" :> 13) @@ ("sp" :> 32)
            @@ ("#" :> 35) @@ ("&" :> 38) @@ ("*" :> 42) @@ ("+" :> 43)
            @@ ("-" :> 45) @@ ("/" :> 47) @@ ("1" :> 49) @@ ("5" :> 53)
            @@ (":" :> 58) @@ ("@" :> 64) @@ ("nbsp" :> 160) @@ ("sup2" :> 178)
            @@ ("Ouml" :> 214) @@ ("ouml" :> 246)

Ord(c) ==
    IF c \in DOMAIN OtherOrd THEN OtherOrd[c]
    ELSE IF \E i \in 1..26 : LowerNames[i] = c
         THEN 96 + (CHOOSE i \in 1..26 : LowerNames[i] = c)
         ELSE 64 + (CHOOSE i \in 1..26 : UpperNames[i] = c)

\* a str literal: W(<<"a","b">>) is "ab"
W(s) == [i \in 1..Len(s) |-> Ord(s[i])]

Range(s) == {s[i] : i \in 1..Len(s)}

---------------------------------------------------------------------------
(* Python str methods and the regular expression ASCII_RE.                 *)

\* str.isspace() of one character (code points below 256)
IsSpace(c) == c \in (9..13) \cup (28..32) \cup {133, 160}

\* str.lower() of one character (code points below 256)
LowerChar(c) ==
    IF c \in 65..90 THEN c + 32
    ELSE IF c \in (192..222) \ {215} THEN c + 32
    ELSE c

\* str.lower()
Lower(s) == [i \in 1..Len(s) |-> LowerChar(s[i])]

\* str.lstrip(): drop leading whitespace, one character at a time
RECURSIVE LStrip(_)
LStrip(s) ==
    IF s # <<>> /\ IsSpace(Head(s)) THEN LStrip(Tail(s)) ELSE s

\* str.rstrip(): drop trailing whitespace, one character at a time
RECURSIVE RStrip(_)
RStrip(s) ==
    IF s # <<>> /\ IsSpace(s[Len(s)]) THEN RStrip(SubSeq(s, 1, Len(s) - 1)) ELSE s

\* str.strip()
Strip(s) == RStrip(LStrip(s))

\* ASCII_RE.fullmatch(w) for ASCII_RE = ^[a-z]+$
AsciiMatch(w) == Len(w) >= 1 /\ \A i \in 1..Len(w) : w[i] \in 97..122

\* Counter(w): the number of occurrences of each character of w
Counter(w) == [c \in Range(w) |-> Cardinality({i \in 1..Len(w) : w[i] = c})]

\* Python's < on str: compare the first differing code point, a proper
\* prefix is smaller
RECURSIVE StrLess(_, _)
StrLess(u, v) ==
    IF v = <<>> THEN FALSE
    ELSE IF u = <<>> THEN TRUE
    ELSE IF Head(u) # Head(v) THEN Head(u) < Head(v)
    ELSE StrLess(Tail(u), Tail(v))

\* a slip: the key (len(x), x), shortest first
KeyLessAscending(u, v) ==
    \/ Len(u) < Len(v)
    \/ Len(u) = Len(v) /\ StrLess(u, v)

\* the sort key lambda x: (-len(x), x), compared as Python compares tuples
KeyLess(u, v) ==
    \/ -Len(u) < -Len(v)
    \/ -Len(u) = -Len(v) /\ StrLess(u, v)

\* list.sort() with the key (-len(x), x): insertion of x into the ordered s
RECURSIVE InsertKey(_, _)
InsertKey(x, s) ==
    IF s = <<>> THEN <<x>>
    ELSE IF KeyLess(x, Head(s)) THEN <<x>> \o s
    ELSE <<Head(s)>> \o InsertKey(x, Tail(s))

\* the same without a key: the order is Python's < on str
RECURSIVE InsertStr(_, _)
InsertStr(x, s) ==
    IF s = <<>> THEN <<x>>
    ELSE IF StrLess(x, Head(s)) THEN <<x>> \o s
    ELSE <<Head(s)>> \o InsertStr(x, Tail(s))

\* set(xs): the distinct elements of a list
SetOf(xs) == Range(xs)

\* sorted(S, key=lambda x: (-len(x), x)) of a set S
RECURSIVE SortedByKey(_)
SortedByKey(S) ==
    IF S = {} THEN <<>>
    ELSE LET x == CHOOSE y \in S : TRUE
         IN  InsertKey(x, SortedByKey(S \ {x}))

\* sorted(S) of a set S of str
RECURSIVE SortedStr(_)
SortedStr(S) ==
    IF S = {} THEN <<>>
    ELSE LET x == CHOOSE y \in S : TRUE
         IN  InsertStr(x, SortedStr(S \ {x}))

\* sorted(set(valid), key=lambda x: (-len(x), x))
SortValid(valid) == SortedByKey(SetOf(valid))

\* sorted(set(pangrams))
SortPangrams(pangrams) == SortedStr(SetOf(pangrams))

---------------------------------------------------------------------------
(* solver.solve_candidates                                                 *)

\* the three checks of the arguments, in the order of the code; "none"
\* when all pass
ConstraintError(al, ma) ==
    IF Len(al) # 7 \/ Cardinality(Range(al)) # 7 \/ ~AsciiMatch(al)
    THEN "allowed must be exactly 7 distinct letters (a-z)"
    ELSE IF Len(ma) # 1 \/ ~AsciiMatch(ma)
    THEN "mandatory must be exactly one a-z letter"
    ELSE IF ~(ma[1] \in Range(al))
    THEN "mandatory letter must be among allowed letters"
    ELSE "none"

\* a slip: the mandatory letter is not asked for
AcceptsWithoutMandatory(w, al, ma) ==
    /\ w # <<>>
    /\ AsciiMatch(w)
    /\ Range(w) \ Range(al) = {}

\* the four `continue` tests of the loop body on the normalised word
Accepts(w, al, ma) ==
    /\ w # <<>>
    /\ AsciiMatch(w)
    /\ ma[1] \in Range(w)
    /\ Range(w) \ Range(al) = {}

\* a slip: every allowed letter occurs, whatever the length
IsPangramCoverOnly(w, al) == Range(w) = Range(al)

\* len(w) == 7 and Counter(w) == allowed_counter
IsPangram(w, al) == Len(w) = 7 /\ Counter(w) = Counter(al)

\* a slip: the length of the last word of the list
MaxLenOfLast(valid) == IF valid # <<>> THEN Len(valid[Len(valid)]) ELSE 0

\* max_len = len(valid[0]) if valid else 0
MaxLenOf(valid) == IF valid # <<>> THEN Len(valid[1]) ELSE 0

\* longest = [w for w in valid if len(w) == max_len]
LongestOf(valid, max_len) == SelectSeq(valid, LAMBDA w : Len(w) = max_len)

NoResult == [valid_words |-> <<>>, pangrams_7_exact |-> <<>>,
             longest_words |-> <<>>, max_len |-> 0]

\* lines 62-73: normalise and check the arguments
ScValidate ==
    /\ sc_pc = "start"
    /\ LET al == Strip(Lower(sc_allowed))
           ma == Strip(Lower(sc_mandatory))
           err == ConstraintError(al, ma)
       IN  /\ sc_al' = al
           /\ sc_ma' = ma
           /\ sc_error' = err
           /\ sc_pc' = IF err = "none" THEN "loop" ELSE "raised"
    /\ UNCHANGED <<sc_allowed, sc_mandatory, sc_candidates, sc_idx, sc_valid,
                   sc_pangrams, sc_result>>
    /\ UNCHANGED <<lb_vars, m_vars>>

\* lines 78-91: one iteration of `for w in candidates`
ScLoop ==
    /\ sc_pc = "loop"
    /\ sc_idx < Len(sc_candidates)
    /\ LET w == Lower(Strip(sc_candidates[sc_idx + 1]))
       IN  /\ sc_idx' = sc_idx + 1
           /\ IF Accepts(w, sc_al, sc_ma)
              THEN /\ sc_valid' = Append(sc_valid, w)
                   /\ sc_pangrams' = IF IsPangram(w, sc_al)
                                     THEN Append(sc_pangrams, w)
                                     ELSE sc_pangrams
              ELSE UNCHANGED <<sc_valid, sc_pangrams>>
    /\ UNCHANGED <<sc_pc, sc_allowed, sc_mandatory, sc_candidates, sc_al, sc_ma,
                   sc_result, sc_error>>
    /\ UNCHANGED <<lb_vars, m_vars>>

\* lines 93-104: sort, deduplicate, derive max_len and longest, return
ScReturn ==
    /\ sc_pc = "loop"
    /\ sc_idx = Len(sc_candidates)
    /\ LET valid == SortValid(sc_valid)
           pangrams == SortPangrams(sc_pangrams)
           max_len == MaxLenOf(valid)
       IN  /\ sc_valid' = valid
           /\ sc_pangrams' = pangrams
           /\ sc_result' = [valid_words |-> valid,
                            pangrams_7_exact |-> pangrams,
                            longest_words |-> LongestOf(valid, max_len),
                            max_len |-> max_len]
    /\ sc_pc' = "done"
    /\ UNCHANGED <<sc_allowed, sc_mandatory, sc_candidates, sc_al, sc_ma,
                   sc_idx, sc_error>>
    /\ UNCHANGED <<lb_vars, m_vars>>

---------------------------------------------------------------------------
(* Inputs of solve_candidates.                                             *)

\* (allowed, mandatory) arguments: valid pairs (also in upper case and
\* padded with whitespace) and malformed ones
ConstraintInputs ==
    { <<W(<<"a","b","c","d","e","f","g">>), W(<<"a">>)>>,
      <<W(<<"sp","A","B","C","d","e","f","g","nl">>), W(<<"G","sp">>)>>,
      <<W(<<"a","b","d","e","f","g","z">>), W(<<"b">>)>>,
      <<W(<<"a","b","c">>), W(<<"a">>)>>,
      <<W(<<"a","b","c","d","e","f","f">>), W(<<"a">>)>>,
      <<W(<<"a","b","c","d","e","f","1">>), W(<<"a">>)>>,
      <<W(<<"a","b","c","d","e","f","g">>), W(<<"z">>)>>,
      <<W(<<"a","b","c","d","e","f","g">>), W(<<"a","b">>)>>,
      <<W(<<"a","b","c","d","e","f","g">>), W(<<"1">>)>>,
      <<W(<<"a","b","c","d","e","f","g">>), <<>>>> }

\* candidate strings
WordPool ==
    { W(<<"g","f","e","d","c","b","a">>),          \* a permutation of allowed
      W(<<"G","f","e","d","c","b","A","nl">>),     \* the same, other case
      W(<<"a","b","c","d","e","f","g">>),
      W(<<"a","a","a","a","a","a","a">>),          \* length 7, one letter
      W(<<"a","b","c","d","e","f","g","a">>),      \* length 8, covers all
      W(<<"b","a","g">>),
      W(<<"sp","B","a","g","sp">>),
      W(<<"g","a","b">>),
      W(<<"a","ouml","b">>),                        \* not a-z
      W(<<"sp","tab">>) }

RECURSIVE SeqsUpTo(_, _)
SeqsUpTo(S, n) ==
    IF n = 0 THEN {<<>>}
    ELSE LET shorter == SeqsUpTo(S, n - 1)
         IN  shorter \cup {Append(s, x) : s \in {t \in shorter : Len(t) = n - 1}, x \in S}

\* solve_candidates is not called
ScIdle ==
    /\ sc_pc = "idle"
    /\ sc_allowed = <<>>
    /\ sc_mandatory = <<>>
    /\ sc_candidates = <<>>
    /\ sc_al = <<>>
    /\ sc_ma = <<>>
    /\ sc_idx = 0
    /\ sc_valid = <<>>
    /\ sc_pangrams = <<>>
    /\ sc_result = NoResult
    /\ sc_error = "none"

\* a call of solve_candidates
ScCall ==
    /\ sc_pc = "start"
    /\ \E c \in ConstraintInputs : sc_allowed = c[1] /\ sc_mandatory = c[2]
    /\ sc_candidates \in SeqsUpTo(WordPool, MaxCands)
    /\ sc_al = <<>>
    /\ sc_ma = <<>>
    /\ sc_idx = 0
    /\ sc_valid = <<>>
    /\ sc_pangrams = <<>>
    /\ sc_result = NoResult
    /\ sc_error = "none"

ScNext == ScValidate \/ ScLoop \/ ScReturn

---------------------------------------------------------------------------
(* Decoding a file opened in text mode.  A decoder returns                 *)
(* [ok |-> BOOLEAN, text |-> the str]; ok is FALSE where Python raises     *)
(* UnicodeDecodeError (errors = "strict").  With errors = "replace" an     *)
(* undecodable octet becomes U+FFFD, with "ignore" it is dropped, and ok   *)
(* is always TRUE.                                                         *)

Decoded(text) == [ok |-> TRUE, text |-> text]

Undecodable == [ok |-> FALSE, text |-> <<>>]

\* the decoded character c followed by the decoding r of the rest
Cons(c, r) == IF r.ok THEN Decoded(<<c>> \o r.text) ELSE r

\* utf-8, for octets below 0xE0 or above 0xF4: ASCII, the two-octet
\* sequences, and the octets that are never valid
RECURSIVE Utf8(_, _)
Utf8(bs, errors) ==
    IF bs = <<>> THEN Decoded(<<>>)
    ELSE IF Head(bs) < 128 THEN Cons(Head(bs), Utf8(Tail(bs), errors))
    ELSE IF Head(bs) \in 194..223 /\ Len(bs) >= 2 /\ bs[2] \in 128..191
         THEN Cons((Head(bs) - 192) * 64 + (bs[2] - 128),
                   Utf8(SubSeq(bs, 3, Len(bs)), errors))
    ELSE IF errors = "replace" THEN Cons(65533, Utf8(Tail(bs), errors))
    ELSE IF errors = "ignore" THEN Utf8(Tail(bs), errors)
    ELSE Undecodable

\* cp1252: latin-1 but for 0x80-0x9F, five of which are undefined
Cp1252High ==
    (128 :> 8364) @@ (130 :> 8218) @@ (131 :> 402) @@ (132 :> 8222)
    @@ (133 :> 8230) @@ (134 :> 8224) @@ (135 :> 8225) @@ (136 :> 710)
    @@ (137 :> 8240) @@ (138 :> 352) @@ (139 :> 8249) @@ (140 :> 338)
    @@ (142 :> 381) @@ (145 :> 8216) @@ (146 :> 8217) @@ (147 :> 8220)
    @@ (148 :> 8221) @@ (149 :> 8226) @@ (150 :> 8211) @@ (151 :> 8212)
    @@ (152 :> 732) @@ (153 :> 8482) @@ (154 :> 353) @@ (155 :> 8250)
    @@ (156 :> 339) @@ (158 :> 382) @@ (159 :> 376)

RECURSIVE Cp1252(_, _)
Cp1252(bs, errors) ==
    IF bs = <<>> THEN Decoded(<<>>)
    ELSE IF Head(bs) \in DOMAIN Cp1252High
         THEN Cons(Cp1252High[Head(bs)], Cp1252(Tail(bs), errors))
    ELSE IF Head(bs) \in 128..159
         THEN IF errors = "replace" THEN Cons(65533, Cp1252(Tail(bs), errors))
              ELSE IF errors = "ignore" THEN Cp1252(Tail(bs), errors)
              ELSE Undecodable
    ELSE Cons(Head(bs), Cp1252(Tail(bs), errors))

\* bytes.decode(enc) for the three encodings of the default list
Decode(bs, enc, errors) ==
    CASE enc = "utf-8" -> Utf8(bs, errors)
      [] enc = "cp1252" -> Cp1252(bs, errors)
      [] enc = "latin-1" -> Decoded(bs)

\* universal newlines of text mode: "\r\n" and "\r" are read as "\n"
RECURSIVE Newlines(_)
Newlines(t) ==
    IF t = <<>> THEN <<>>
    ELSE IF Head(t) = 13
         THEN <<10>> \o Newlines(IF Len(t) >= 2 /\ t[2] = 10
                                 THEN SubSeq(t, 3, Len(t)) ELSE Tail(t))
    ELSE <<Head(t)>> \o Newlines(Tail(t))

\* f.readlines() from the start: the lines, each with its "\n"; cur is the
\* line being read
RECURSIVE ReadLinesFrom(_, _)
ReadLinesFrom(t, cur) ==
    IF t = <<>> THEN (IF cur = <<>> THEN <<>> ELSE <<cur>>)
    ELSE IF Head(t) = 10 THEN <<Append(cur, 10)>> \o ReadLinesFrom(Tail(t), <<>>)
    ELSE ReadLinesFrom(Tail(t), Append(cur, Head(t)))

ReadLines(t) == ReadLinesFrom(Newlines(t), <<>>)

\* str.isdigit() (code points below 256)
IsDigitStr(s) ==
    s # <<>> /\ \A i \in 1..Len(s) : s[i] \in (48..57) \cup {178, 179, 185}

\* a slip: the first line is dropped whatever it holds
SkipCountAlways(all) == IF all = <<>> THEN <<>> ELSE Tail(all)

\* first = f.readline(); rest = f.readlines();
\* rest if first.strip().isdigit() else [first] + rest
SkipCount(all) ==
    LET first == IF all = <<>> THEN <<>> ELSE Head(all)
        rest == IF all = <<>> THEN <<>> ELSE Tail(all)
    IN  IF IsDigitStr(Strip(first)) THEN rest ELSE <<first>> \o rest

\* line.split("/", 1)[0]
RECURSIVE BeforeSlash(_)
BeforeSlash(line) ==
    IF line = <<>> \/ Head(line) = 47 THEN <<>>
    ELSE <<Head(line)>> \o BeforeSlash(Tail(line))

\* w = line.split("/", 1)[0].strip().lower()
Token(line) == Lower(Strip(BeforeSlash(line)))

---------------------------------------------------------------------------
(* solver.load_base_words (main.py holds a copy of it, lines 68-94).       *)

\* lines 25-34: one pass of `for enc in encodings`: decode the whole file,
\* keep the lines and leave the loop, or go on after UnicodeDecodeError
LbTry ==
    /\ lb_pc = "try"
    /\ lb_tried < Len(lb_encodings)
    /\ LET d == Decode(lb_bytes, lb_encodings[lb_tried + 1], "strict")
       IN  IF d.ok
           THEN /\ lb_lines' = SkipCount(ReadLines(d.text))
                /\ lb_pc' = "norm"
                /\ UNCHANGED lb_tried
           ELSE /\ lb_tried' = lb_tried + 1
                /\ UNCHANGED <<lb_lines, lb_pc>>
    /\ UNCHANGED <<lb_bytes, lb_encodings, lb_li, lb_words, lb_result>>
    /\ UNCHANGED <<sc_vars, m_vars>>

\* lines 36-39: no encoding decoded the file: the last one, with
\* errors="replace", and no look at the first line
LbLastResort ==
    /\ lb_pc = "try"
    /\ lb_tried = Len(lb_encodings)
    /\ lb_lines' = ReadLines(Decode(lb_bytes, lb_encodings[Len(lb_encodings)], "replace").text)
    /\ lb_pc' = "norm"
    /\ UNCHANGED <<lb_bytes, lb_encodings, lb_tried, lb_li, lb_words, lb_result>>
    /\ UNCHANGED <<sc_vars, m_vars>>

\* lines 42-45: one pass of `for line in lines`
LbLine ==
    /\ lb_pc = "norm"
    /\ lb_li < Len(lb_lines)
    /\ LET w == Token(lb_lines[lb_li + 1])
       IN  lb_words' = IF AsciiMatch(w) THEN lb_words \cup {w} ELSE lb_words
    /\ lb_li' = lb_li + 1
    /\ UNCHANGED <<lb_pc, lb_bytes, lb_encodings, lb_tried, lb_lines, lb_result>>
    /\ UNCHANGED <<sc_vars, m_vars>>

\* line 47: return sorted(words)
LbReturn ==
    /\ lb_pc = "norm"
    /\ lb_li = Len(lb_lines)
    /\ lb_result' = SortedStr(lb_words)
    /\ lb_pc' = "done"
    /\ UNCHANGED <<lb_bytes, lb_encodings, lb_tried, lb_lines, lb_li, lb_words>>
    /\ UNCHANGED <<sc_vars, m_vars>>

LbNext == LbTry \/ LbLastResort \/ LbLine \/ LbReturn

---------------------------------------------------------------------------
(* main.looks_reasonable, main.hunspell_filter_valid                       *)

\* re.search(r"(.)\1\1", word): three times the same character, which is
\* not a line feed
HasTriple(word) ==
    \E i \in 1..(Len(word) - 2) :
        word[i] # 10 /\ word[i + 1] = word[i] /\ word[i + 2] = word[i]

\* len(word) <= 8 and len(word) % 2 == 0 and word[:half] == word[half:]
IsDoubled(word) ==
    /\ Len(word) <= 8
    /\ Len(word) % 2 = 0
    /\ SubSeq(word, 1, Len(word) \div 2) = SubSeq(word, Len(word) \div 2 + 1, Len(word))

\* looks_reasonable(word, min_len=min_len)
LooksReasonable(word, min_len) ==
    IF Len(word) < min_len THEN FALSE
    ELSE IF HasTriple(word) THEN FALSE
    ELSE IF IsDoubled(word) THEN FALSE
    ELSE TRUE

\* a slip: the heuristic is applied whatever the toggle says
PassesPrefilterAlwaysHeuristic(w, al, ma, min_len, filter, blacklist) ==
    /\ w \notin blacklist
    /\ ma[1] \in Range(w)
    /\ Range(w) \ Range(al) = {}
    /\ LooksReasonable(w, min_len)

\* the five `continue` tests of the prefilter loop of solve
PassesPrefilter(w, al, ma, min_len, filter, blacklist) ==
    /\ w \notin blacklist
    /\ ma[1] \in Range(w)
    /\ Range(w) \ Range(al) = {}
    /\ ~(filter /\ ~LooksReasonable(w, min_len))
    /\ ~(~filter /\ Len(w) < min_len)

\* ("\n".join(words) + "\n")
RECURSIVE JoinLines(_)
JoinLines(words) ==
    IF words = <<>> THEN <<10>>
    ELSE IF Len(words) = 1 THEN Head(words) \o <<10>>
    ELSE Head(words) \o <<10>> \o JoinLines(Tail(words))

\* the line boundaries of str.splitlines() (code points below 256)
IsBoundary(c) == c \in {10, 11, 12, 13, 28, 29, 30, 133}

\* str.splitlines(): the lines without their ends; cur is the line being
\* read, open whether a line has begun
RECURSIVE SplitLinesFrom(_, _, _)
SplitLinesFrom(t, cur, open) ==
    IF t = <<>> THEN (IF open THEN <<cur>> ELSE <<>>)
    ELSE IF Head(t) = 13 /\ Len(t) >= 2 /\ t[2] = 10
         THEN <<cur>> \o SplitLinesFrom(SubSeq(t, 3, Len(t)), <<>>, FALSE)
    ELSE IF IsBoundary(Head(t))
         THEN <<cur>> \o SplitLinesFrom(Tail(t), <<>>, FALSE)
    ELSE SplitLinesFrom(Tail(t), Append(cur, Head(t)), TRUE)

SplitLines(t) == SplitLinesFrom(t, <<>>, FALSE)

\* str.startswith(c) for one character c
StartsWith(line, c) == line # <<>> /\ line[1] = c

\* a slip: headers are looked for after stripping the line
ResultLinesStripFirst(out) ==
    LET kept == SelectSeq(out, LAMBDA line : Strip(line) # <<>> /\ ~StartsWith(Strip(line), 64))
    IN  [i \in 1..Len(kept) |-> Strip(kept[i])]

\* [line.strip() for line in out if line.strip() and not line.startswith("@")]
ResultLines(out) ==
    LET kept == SelectSeq(out, LAMBDA line : Strip(line) # <<>> /\ ~StartsWith(line, 64))
    IN  [i \in 1..Len(kept) |-> Strip(kept[i])]

Min(a, b) == IF a <= b THEN a ELSE b

\* lines 157-171: the set accepted, from the words and the octets of stdout
ParseAccepted(words, stdout) ==
    LET out == SplitLines(Decode(stdout, "utf-8", "ignore").text)
        result_lines == ResultLines(out)
        n == Min(Len(words), Len(result_lines))
    IN  {words[i] : i \in {k \in 1..n : StartsWith(result_lines[k], 42)}}

\* a slip: hunspell is run for an empty list too
ReturnsEarlyNever(words) == FALSE

\* lines 139-140: if not words: return set()
ReturnsEarly(words) == words = <<>>

---------------------------------------------------------------------------
(* main.solve                                                              *)

\* lines 188-193: the checks of solve; the text given to sys.exit, or
\* "none"
SolveError(al, ma) ==
    IF Len(al) # 7 \/ Cardinality(Range(al)) # 7 \/ ~AsciiMatch(al)
    THEN "ERROR: allowed must be exactly 7 distinct letters (a-z)"
    ELSE IF Len(ma) # 1 \/ ~AsciiMatch(ma)
    THEN "ERROR: mandatory must be exactly one a-z letter"
    ELSE IF ~(ma[1] \in Range(al))
    THEN "ERROR: mandatory letter must be among the allowed letters"
    ELSE "none"

\* lines 185-196: normalise and check the arguments; sys.exit(text) ends
\* the process with status 1 and the text on stderr
MSolveValidate ==
    /\ m_pc = "solve"
    /\ LET al == Strip(Lower(m_allowed))
           ma == Strip(Lower(m_mandatory))
       IN  /\ m_al' = al
           /\ m_ma' = ma
           /\ IF SolveError(al, ma) = "none"
              THEN /\ m_pc' = "prefilter"
                   /\ UNCHANGED <<m_status, m_stderr>>
              ELSE /\ m_pc' = "exit"
                   /\ m_status' = 1
                   /\ m_stderr' = "message"
    /\ UNCHANGED <<m_env, m_argv, m_allowed, m_mandatory, m_min_len, m_filter,
                   m_blacklist, m_base_words, m_bi, m_candidates, m_launches,
                   m_payload, m_stdout, m_accepted, m_valid, m_pangrams, m_longest>>
    /\ UNCHANGED <<sc_vars, lb_vars>>

\* lines 200-211: one pass of `for w in base_words`
MPrefilter ==
    /\ m_pc = "prefilter"
    /\ m_bi < Len(m_base_words)
    /\ LET w == m_base_words[m_bi + 1]
       IN  m_candidates' =
              IF PassesPrefilter(w, m_al, m_ma, m_min_len, m_filter, m_blacklist)
              THEN Append(m_candidates, w)
              ELSE m_candidates
    /\ m_bi' = m_bi + 1
    /\ UNCHANGED <<m_pc, m_env, m_argv, m_allowed, m_mandatory, m_min_len, m_filter,
                   m_blacklist, m_base_words, m_al, m_ma, m_launches, m_payload,
                   m_stdout, m_accepted, m_valid, m_pangrams, m_longest,
                   m_status, m_stderr>>
    /\ UNCHANGED <<sc_vars, lb_vars>>

\* lines 139-171 on the words `words`: nothing is run for an empty list;
\* else subprocess.run is called once with all the words.  It raises
\* FileNotFoundError when there is no hunspell, which nothing catches, and
\* else hunspell writes one of `outputs`.
HunspellCall(words, outputs) ==
    IF ReturnsEarly(words)
    THEN /\ m_accepted' = {}
         /\ m_pc' = "report"
         /\ UNCHANGED <<m_launches, m_payload, m_stdout, m_status, m_stderr>>
    ELSE /\ m_launches' = m_launches + 1
         /\ m_payload' = JoinLines(words)
         /\ IF ~m_env.hunspell
            THEN /\ m_pc' = "exit"
                 /\ m_status' = 1
                 /\ m_stderr' = "traceback"
                 /\ UNCHANGED <<m_stdout, m_accepted>>
            ELSE /\ \E stdout \in outputs :
                       /\ m_stdout' = stdout
                       /\ m_accepted' = ParseAccepted(words, stdout)
                 /\ m_pc' = "report"
                 /\ UNCHANGED <<m_status, m_stderr>>

\* lines 213-216: the loop is over; accepted = hunspell_filter_valid(candidates)
MOracle(outputs) ==
    /\ m_pc = "prefilter"
    /\ m_bi = Len(m_base_words)
    /\ HunspellCall(m_candidates, outputs)
    /\ UNCHANGED <<m_env, m_argv, m_allowed, m_mandatory, m_min_len, m_filter,
                   m_blacklist, m_base_words, m_al, m_ma, m_bi, m_candidates,
                   m_valid, m_pangrams, m_longest>>
    /\ UNCHANGED <<sc_vars, lb_vars>>

\* lines 218-242: valid, pangrams, the report; solve returns
MReport ==
    /\ m_pc = "report"
    /\ LET valid == SortValid(SelectSeq(m_candidates, LAMBDA w : w \in m_accepted))
       IN  /\ m_valid' = valid
           /\ m_pangrams' = SortPangrams(SelectSeq(valid, LAMBDA w : IsPangram(w, m_al)))
           /\ m_longest' = IF valid # <<>>
                           THEN LongestOf(valid, Len(valid[1]))
                           ELSE <<>>
    /\ m_pc' = "returned"
    /\ UNCHANGED <<m_env, m_argv, m_allowed, m_mandatory, m_min_len, m_filter,
                   m_blacklist, m_base_words, m_al, m_ma, m_bi, m_candidates,
                   m_launches, m_payload, m_stdout, m_accepted, m_status, m_stderr>>
    /\ UNCHANGED <<sc_vars, lb_vars>>

---------------------------------------------------------------------------
(* main.main                                                               *)

\* lines 246-258: the settings are read (they are inputs of the model) and
\* resolve_dic_aff looks for a dictionary: RuntimeError when there is
\* none, which nothing catches
MResolve ==
    /\ m_pc = "main"
    /\ IF m_env.dict_found
       THEN /\ m_pc' = "argv"
            /\ UNCHANGED <<m_status, m_stderr>>
       ELSE /\ m_pc' = "exit"
            /\ m_status' = 1
            /\ m_stderr' = "traceback"
    /\ UNCHANGED <<m_env, m_argv, m_allowed, m_mandatory, m_min_len, m_filter,
                   m_blacklist, m_base_words, m_al, m_ma, m_bi, m_candidates,
                   m_launches, m_payload, m_stdout, m_accepted, m_valid,
                   m_pangrams, m_longest>>
    /\ UNCHANGED <<sc_vars, lb_vars>>

\* lines 260-266: the usage text and sys.exit(1) unless there are two
\* arguments
MArgv ==
    /\ m_pc = "argv"
    /\ IF Len(m_argv) + 1 # 3
       THEN /\ m_pc' = "exit"
            /\ m_status' = 1
            /\ m_stderr' = "usage"
            /\ UNCHANGED <<m_allowed, m_mandatory>>
       ELSE /\ m_pc' = "load"
            /\ m_allowed' = m_argv[1]
            /\ m_mandatory' = m_argv[2]
            /\ UNCHANGED <<m_status, m_stderr>>
    /\ UNCHANGED <<m_env, m_argv, m_min_len, m_filter, m_blacklist, m_base_words,
                   m_al, m_ma, m_bi, m_candidates, m_launches, m_payload,
                   m_stdout, m_accepted, m_valid, m_pangrams, m_longest>>
    /\ UNCHANGED <<sc_vars, lb_vars>>

\* line 268: load_base_words(dic_path, encodings) is called; open() raises
\* OSError when the file cannot be read, which nothing catches
MLoad ==
    /\ m_pc = "load"
    /\ IF m_env.readable
       THEN /\ m_pc' = "loading"
            /\ lb_pc' = "try"
            /\ lb_bytes' = m_env.dic
            /\ lb_encodings' = m_env.encodings
            /\ UNCHANGED <<m_status, m_stderr>>
       ELSE /\ m_pc' = "exit"
            /\ m_status' = 1
            /\ m_stderr' = "traceback"
            /\ UNCHANGED <<lb_pc, lb_bytes, lb_encodings>>
    /\ UNCHANGED <<lb_tried, lb_lines, lb_li, lb_words, lb_result>>
    /\ UNCHANGED <<m_env, m_argv, m_allowed, m_mandatory, m_min_len, m_filter,
                   m_blacklist, m_base_words, m_al, m_ma, m_bi, m_candidates,
                   m_launches, m_payload, m_stdout, m_accepted, m_valid,
                   m_pangrams, m_longest>>
    /\ UNCHANGED sc_vars

\* lines 268-270: load_base_words has returned; solve is called
MLoaded ==
    /\ m_pc = "loading"
    /\ lb_pc = "done"
    /\ m_base_words' = lb_result
    /\ m_pc' = "solve"
    /\ UNCHANGED <<m_env, m_argv, m_allowed, m_mandatory, m_min_len, m_filter,
                   m_blacklist, m_al, m_ma, m_bi, m_candidates, m_launches,
                   m_payload, m_stdout, m_accepted, m_valid, m_pangrams,
                   m_longest, m_status, m_stderr>>
    /\ UNCHANGED <<sc_vars, lb_vars>>

\* lines 279-283: solve has returned, main returns, the process ends
MExit ==
    /\ m_pc = "returned"
    /\ m_pc' = "exit"
    /\ m_status' = 0
    /\ UNCHANGED <<m_env, m_argv, m_allowed, m_mandatory, m_min_len, m_filter,
                   m_blacklist, m_base_words, m_al, m_ma, m_bi, m_candidates,
                   m_launches, m_payload, m_stdout, m_accepted, m_valid,
                   m_pangrams, m_longest, m_stderr>>
    /\ UNCHANGED <<sc_vars, lb_vars>>

---------------------------------------------------------------------------
(* Inputs of load_base_words: a file is up to MaxChunks of these chunks    *)
(* of octets, one after the other.                                         *)

Chunks ==
    { W(<<"5","nl">>),                             \* the count line
      W(<<"a","b","/","A","nl">>),                 \* a stem and its flags
      W(<<"a","b","/","1","5","nl">>),             \* the stem, numeric flags
      W(<<"A","b","nl">>),                         \* the stem, other case
      <<114, 246, 10>>,                            \* r, o umlaut (latin-1)
      <<114, 195, 182, 10>>,                       \* r, o umlaut (utf-8)
      W(<<"a","-","b","nl">>),
      W(<<"sp","b","a","sp","cr","nl">>),          \* padded, CR LF
      W(<<"b">>),                                   \* no line end
      W(<<"/","x","nl">>),                         \* nothing before the flags
      <<99, 129, 10>> }                            \* c, 0x81

EncodingLists ==
    { <<"utf-8", "latin-1", "cp1252">>,
      <<"utf-8", "latin-1">>,
      <<"utf-8", "cp1252">> }

RECURSIVE Concat(_)
Concat(ss) == IF ss = <<>> THEN <<>> ELSE Head(ss) \o Concat(Tail(ss))

DicFiles == {Concat(cs) : cs \in SeqsUpTo(Chunks, MaxChunks)}

\* load_base_words is not called
LbIdle ==
    /\ lb_pc = "idle"
    /\ lb_bytes = <<>>
    /\ lb_encodings = <<>>
    /\ lb_tried = 0
    /\ lb_lines = <<>>
    /\ lb_li = 0
    /\ lb_words = {}
    /\ lb_result = <<>>

\* a call of load_base_words
LbCall ==
    /\ lb_pc = "try"
    /\ lb_bytes \in DicFiles
    /\ lb_encodings \in EncodingLists
    /\ lb_tried = 0
    /\ lb_lines = <<>>
    /\ lb_li = 0
    /\ lb_words = {}
    /\ lb_result = <<>>

---------------------------------------------------------------------------
(* Inputs of main, solve and hunspell_filter_valid.                        *)

NoEnv == [dict_found |-> TRUE, readable |-> TRUE, hunspell |-> TRUE,
          dic |-> <<>>, encodings |-> <<"utf-8", "latin-1", "cp1252">>]

\* base words, for the puzzle abcdefg with a mandatory
BasePool ==
    { W(<<"b","e","a","d">>),
      W(<<"c","a","f","e">>),
      W(<<"a","b","c","d","a","b","c","d">>),              \* two halves, 8
      W(<<"a","b","a","b">>),                              \* two halves, 4
      W(<<"a","b","c","d","e","a","b","c","d","e">>),      \* two halves, 10
      W(<<"b","a","a","a","d">>),                          \* a three times
      W(<<"d","e","e","d">>),                              \* no a
      W(<<"h","a","z","e">>) }                             \* h, z not allowed

\* (allowed, mandatory) arguments of solve: a valid pair and malformed ones
SolveConstraints ==
    { <<W(<<"sp","A","B","C","d","e","f","g">>), W(<<"A","nl">>)>>,
      <<W(<<"a","b","c","d","e","f","f">>), W(<<"a">>)>>,
      <<W(<<"a","b","c","d","e","f","g">>), W(<<"z">>)>> }

\* what hunspell may write, in chunks: accepted, rejected with
\* suggestions, a header
ReplyChunks ==
    { W(<<"*","nl">>),
      W(<<"&","sp","b","sp","1","sp","1",":","sp","c","nl">>),
      W(<<"@","h","nl">>) }

\* the same with blank lines, padded lines, an unfinished line and an
\* octet that is not utf-8
OutChunks ==
    { W(<<"*","nl">>),
      W(<<"&","sp","b","nl">>),
      W(<<"@","h","nl">>),
      W(<<"nl">>),
      W(<<"sp","*","nl">>),
      W(<<"sp","tab","cr","nl">>),
      W(<<"sp","@","nl">>),
      W(<<"*">>),
      <<246, 35, 10>> }

Replies == {Concat(cs) : cs \in SeqsUpTo(ReplyChunks, MaxReply)}

Outputs == {Concat(cs) : cs \in SeqsUpTo(OutChunks, MaxOut)}

OracleWords == { W(<<"b","e","a","d">>), W(<<"c","a","f","e">>) }

\* the dictionary files of the runs of main
MainDics ==
    { W(<<"5","nl">>) \o W(<<"b","e","a","d","/","A","nl">>)
        \o W(<<"C","a","f","e","nl">>)
        \o W(<<"a","b","c","d","a","b","c","d","nl">>)
        \o <<114, 246, 115, 116, 101, 110, 10>>
        \o W(<<"g","f","e","d","c","b","a","/","B","nl">>),
      W(<<"h","a","z","e","nl">>) }

\* sys.argv[1:]
MainArgvs ==
    { <<>>,
      <<W(<<"a","b","c","d","e","f","g">>)>>,
      <<W(<<"a","b","c","d","e","f","g">>), W(<<"a">>), W(<<"x">>)>>,
      <<W(<<"A","B","C","d","e","f","g">>), W(<<"a">>)>>,
      <<W(<<"a","b","c">>), W(<<"a">>)>>,
      <<W(<<"a","b","c","d","e","f","g">>), W(<<"z">>)>> }

\* main and solve are not called
MIdle ==
    /\ m_pc = "idle"
    /\ m_env = NoEnv
    /\ m_argv = <<>>
    /\ m_allowed = <<>>
    /\ m_mandatory = <<>>
    /\ m_min_len = 4
    /\ m_filter = TRUE
    /\ m_blacklist = {}
    /\ m_base_words = <<>>
    /\ m_al = <<>>
    /\ m_ma = <<>>
    /\ m_bi = 0
    /\ m_candidates = <<>>
    /\ m_launches = 0
    /\ m_payload = <<>>
    /\ m_stdout = <<>>
    /\ m_accepted = {}
    /\ m_valid = <<>>
    /\ m_pangrams = <<>>
    /\ m_longest = <<>>
    /\ m_status = -1
    /\ m_stderr = "none"

\* the locals of solve before it runs
MFresh ==
    /\ m_al = <<>>
    /\ m_ma = <<>>
    /\ m_bi = 0
    /\ m_candidates = <<>>
    /\ m_launches = 0
    /\ m_payload = <<>>
    /\ m_stdout = <<>>
    /\ m_accepted = {}
    /\ m_valid = <<>>
    /\ m_pangrams = <<>>
    /\ m_longest = <<>>
    /\ m_status = -1
    /\ m_stderr = "none"

\* a run of the program
MainCall ==
    /\ m_pc = "main"
    /\ m_env \in [dict_found : BOOLEAN, readable : BOOLEAN, hunspell : BOOLEAN,
                  dic : MainDics,
                  encodings : {<<"utf-8", "latin-1", "cp1252">>, <<"utf-8">>}]
    /\ m_argv \in MainArgvs
    /\ m_allowed = <<>>
    /\ m_mandatory = <<>>
    /\ m_min_len = 4
    /\ m_filter \in BOOLEAN
    /\ m_blacklist \in {{}, {W(<<"b","e","a","d">>)}}
    /\ m_base_words = <<>>
    /\ MFresh

\* a call of solve
SolveCall ==
    /\ m_pc = "solve"
    /\ m_env \in [dict_found : {TRUE}, readable : {TRUE}, hunspell : BOOLEAN,
                  dic : {<<>>}, encodings : {NoEnv.encodings}]
    /\ m_argv = <<>>
    /\ \E c \in SolveConstraints : m_allowed = c[1] /\ m_mandatory = c[2]
    /\ m_min_len \in {4, 5}
    /\ m_filter \in BOOLEAN
    /\ m_blacklist \in {{}, {W(<<"c","a","f","e">>)}}
    /\ m_base_words \in SeqsUpTo(BasePool, MaxBase)
    /\ MFresh

\* a call of hunspell_filter_valid
HunspellInit ==
    /\ m_pc = "hunspell"
    /\ m_env \in [dict_found : {TRUE}, readable : {TRUE}, hunspell : BOOLEAN,
                  dic : {<<>>}, encodings : {NoEnv.encodings}]
    /\ m_argv = <<>>
    /\ m_allowed = <<>>
    /\ m_mandatory = <<>>
    /\ m_min_len = 4
    /\ m_filter = TRUE
    /\ m_blacklist = {}
    /\ m_base_words = <<>>
    /\ m_al = <<>>
    /\ m_ma = <<>>
    /\ m_bi = 0
    /\ m_candidates \in SeqsUpTo(OracleWords, MaxWords)
    /\ m_launches = 0
    /\ m_payload = <<>>
    /\ m_stdout = <<>>
    /\ m_accepted = {}
    /\ m_valid = <<>>
    /\ m_pangrams = <<>>
    /\ m_longest = <<>>
    /\ m_status = -1
    /\ m_stderr = "none"

\* hunspell_filter_valid(words, ...) called on its own; words is kept in
\* m_candidates
MHunspell(outputs) ==
    /\ m_pc = "hunspell"
    /\ HunspellCall(m_candidates, outputs)
    /\ UNCHANGED <<m_env, m_argv, m_allowed, m_mandatory, m_min_len, m_filter,
                   m_blacklist, m_base_words, m_al, m_ma, m_bi, m_candidates,
                   m_valid, m_pangrams, m_longest>>
    /\ UNCHANGED <<sc_vars, lb_vars>>

---------------------------------------------------------------------------
(* The specifications.                                                     *)

\* solve_candidates alone, as its tests call it
SolverInit == ScCall /\ LbIdle /\ MIdle

SpecSolver == SolverInit /\ [][ScNext]_vars

\* load_base_words alone, as its test calls it
LoaderInit == LbCall /\ ScIdle /\ MIdle

SpecLoader == LoaderInit /\ [][LbNext]_vars

\* hunspell_filter_valid alone
OracleInit == HunspellInit /\ ScIdle /\ LbIdle

OracleNext == MHunspell(Outputs)

SpecOracle == OracleInit /\ [][OracleNext]_vars

\* solve alone
SolveInit == SolveCall /\ ScIdle /\ LbIdle

SolveNext == MSolveValidate \/ MPrefilter \/ MOracle(Replies) \/ MReport

SpecSolve == SolveInit /\ [][SolveNext]_vars

\* a run of main
Init == MainCall /\ ScIdle /\ LbIdle

Next ==
    \/ MResolve
    \/ MArgv
    \/ MLoad
    \/ LbTry
    \/ LbLastResort
    \/ LbLine
    \/ LbReturn
    \/ MLoaded
    \/ MSolveValidate
    \/ MPrefilter
    \/ MOracle(Replies)
    \/ MReport
    \/ MExit

Spec == Init /\ [][Next]_vars

---------------------------------------------------------------------------
(* What the claims speak of, stated without the operators of the model of  *)
(* the code above (only the character tables IsSpace and LowerChar are     *)
(* shared).                                                                *)

\* s after trimming and lowercasing: the lowercased slice s[i..j], where i
\* is the place of the first character that is not whitespace and j that
\* of the last one (the empty slice when there is none)
NormalForm(s) ==
    LET i == CHOOSE n \in 1..(Len(s) + 1) :
                 /\ \A k \in 1..(n - 1) : IsSpace(s[k])
                 /\ n = Len(s) + 1 \/ ~IsSpace(s[n])
        j == CHOOSE n \in 0..Len(s) :
                 /\ \A k \in (n + 1)..Len(s) : IsSpace(s[k])
                 /\ n = 0 \/ ~IsSpace(s[n])
    IN  [k \in 1..(j - i + 1) |-> LowerChar(s[i + k - 1])]

IsAZ(c) == c \in 97..122

\* (allowed, mandatory) is a valid constraint pair: 7 distinct a-z letters
\* and one of them
ValidPair(allowed, mandatory) ==
    LET al == NormalForm(allowed)
        ma == NormalForm(mandatory)
    IN  /\ Len(al) = 7
        /\ \A i \in 1..7 : IsAZ(al[i])
        /\ \A i, j \in 1..7 : i # j => al[i] # al[j]
        /\ Len(ma) = 1
        /\ \E i \in 1..7 : al[i] = ma[1]

LettersOf(allowed) == LET al == NormalForm(allowed) IN {al[i] : i \in 1..Len(al)}

\* w is a word of the puzzle (letters, m)
Qualifies(w, letters, m) ==
    /\ Len(w) > 0
    /\ \A i \in 1..Len(w) : IsAZ(w[i])
    /\ \E i \in 1..Len(w) : w[i] = m
    /\ \A i \in 1..Len(w) : w[i] \in letters

\* u comes before v in the dictionary
LexBefore(u, v) ==
    \E k \in 0..Len(u) :
        /\ k <= Len(v)
        /\ \A i \in 1..k : u[i] = v[i]
        /\ \/ k = Len(u) /\ k < Len(v)
           \/ k < Len(u) /\ k < Len(v) /\ u[k + 1] < v[k + 1]

\* w uses each letter of letters exactly once
IsPermutation(w, letters) ==
    /\ Len(w) = Cardinality(letters)
    /\ \A c \in letters : Cardinality({i \in 1..Len(w) : w[i] = c}) = 1

ScQualifying ==
    LET letters == LettersOf(sc_allowed)
        m == NormalForm(sc_mandatory)[1]
    IN  { w \in {NormalForm(sc_candidates[i]) : i \in 1..Len(sc_candidates)} :
            Qualifies(w, letters, m) }

---------------------------------------------------------------------------
(* Claims about solve_candidates.                                          *)

\* C1: for a valid constraint pair solve_candidates returns, and the words
\* of valid_words are exactly the trimmed and lowercased candidates that
\* are non-empty, a-z only, contain the mandatory letter and use only
\* allowed letters.
C1_ValidWordsExact ==
    /\ sc_pc = "raised" => ~ValidPair(sc_allowed, sc_mandatory)
    /\ sc_pc = "done" =>
         /\ ValidPair(sc_allowed, sc_mandatory)
         /\ Range(sc_result.valid_words) = ScQualifying

\* a run that kept two words, dropped a candidate, and normalised one
C1_Witness ==
    /\ sc_pc = "done"
    /\ Len(sc_result.valid_words) = 2
    /\ \E i \in 1..Len(sc_candidates) :
          NormalForm(sc_candidates[i]) \notin Range(sc_result.valid_words)
    /\ \E i \in 1..Len(sc_candidates) :
          /\ sc_candidates[i] # NormalForm(sc_candidates[i])
          /\ NormalForm(sc_candidates[i]) \in Range(sc_result.valid_words)

\* C2: valid_words is strictly ordered by (descending length, ascending
\* dictionary order), so no word occurs twice.
C2_StrictlyOrdered ==
    sc_pc = "done" =>
        LET vw == sc_result.valid_words
        IN  /\ \A i \in 1..(Len(vw) - 1) :
                  \/ Len(vw[i]) > Len(vw[i + 1])
                  \/ Len(vw[i]) = Len(vw[i + 1]) /\ LexBefore(vw[i], vw[i + 1])
            /\ \A i, j \in 1..Len(vw) : i # j => vw[i] # vw[j]
            /\ Len(vw) = Cardinality(ScQualifying)

\* three candidates, two of them the same word in different case, and two
\* kept words of one length
C2_Witness ==
    /\ sc_pc = "done"
    /\ Len(sc_candidates) = 3
    /\ \E i, j \in 1..3 :
          /\ sc_candidates[i] # sc_candidates[j]
          /\ NormalForm(sc_candidates[i]) = NormalForm(sc_candidates[j])
          /\ NormalForm(sc_candidates[i]) \in Range(sc_result.valid_words)
    /\ Len(sc_result.valid_words) = 2
    /\ Len(sc_result.valid_words[1]) = Len(sc_result.valid_words[2])

\* C3: pangrams_7_exact holds exactly the valid words that are a
\* permutation of the 7 allowed letters, ascending and without duplicates;
\* no word of another length and no word with a repeated letter is in it.
C3_PangramsExact ==
    sc_pc = "done" =>
        LET pg == sc_result.pangrams_7_exact
        IN  /\ Range(pg) = { w \in Range(sc_result.valid_words) :
                               IsPermutation(w, LettersOf(sc_allowed)) }
            /\ \A i \in 1..(Len(pg) - 1) : LexBefore(pg[i], pg[i + 1])
            /\ \A i \in 1..Len(pg) :
                  /\ Len(pg[i]) = 7
                  /\ \A j, k \in 1..7 : j # k => pg[i][j] # pg[i][k]

\* two pangrams found next to a valid word of 7 or more letters that is none
C3_Witness ==
    /\ sc_pc = "done"
    /\ Len(sc_result.pangrams_7_exact) = 2
    /\ \E i \in 1..Len(sc_result.valid_words) :
          /\ Len(sc_result.valid_words[i]) >= 7
          /\ sc_result.valid_words[i] \notin Range(sc_result.pangrams_7_exact)

\* C4: max_len is the greatest length in valid_words and longest_words the
\* words of that length; 0 and the empty list when there is no valid word.
C4_LongestExact ==
    sc_pc = "done" =>
        LET vw == sc_result.valid_words
        IN  /\ vw = <<>> => sc_result.max_len = 0 /\ sc_result.longest_words = <<>>
            /\ vw # <<>> =>
                  /\ \E i \in 1..Len(vw) : Len(vw[i]) = sc_result.max_len
                  /\ \A i \in 1..Len(vw) : Len(vw[i]) <= sc_result.max_len
            /\ Range(sc_result.longest_words) =
                  { w \in Range(vw) : Len(w) = sc_result.max_len }

\* two longest words and a shorter one
C4_Witness ==
    /\ sc_pc = "done"
    /\ Len(sc_result.valid_words) = 3
    /\ Len(sc_result.longest_words) = 2
    /\ sc_result.max_len > Len(sc_result.valid_words[3])

\* no valid word at all although candidates were given
C4_WitnessEmpty ==
    /\ sc_pc = "done"
    /\ Len(sc_candidates) = 3
    /\ sc_result.valid_words = <<>>
    /\ sc_result.max_len = 0

(* Claims about load_base_words.                                           *)

\* the file decodes under one of the listed encodings
LbDecodes == \E k \in 1..Len(lb_encodings) : Decode(lb_bytes, lb_encodings[k], "strict").ok

\* the text of the file: what the first listed encoding that decodes it
\* makes of its octets
LbText ==
    LET k == CHOOSE i \in 1..Len(lb_encodings) :
                 /\ Decode(lb_bytes, lb_encodings[i], "strict").ok
                 /\ \A j \in 1..(i - 1) : ~Decode(lb_bytes, lb_encodings[j], "strict").ok
    IN  Decode(lb_bytes, lb_encodings[k], "strict").text

IsLineEnd(c) == c = 10 \/ c = 13

\* the lines of t as pairs <<i, j>>: t[i..j] is a line without its line
\* end ("\n", "\r" or "\r\n")
LineSpans(t) ==
    { q \in (1..Len(t)) \X (0..Len(t)) :
        /\ q[1] <= q[2] + 1
        /\ \A k \in q[1]..q[2] : ~IsLineEnd(t[k])
        /\ q[2] = Len(t) \/ IsLineEnd(t[q[2] + 1])
        /\ \/ q[1] = 1
           \/ /\ IsLineEnd(t[q[1] - 1])
              /\ ~(t[q[1] - 1] = 13 /\ t[q[1]] = 10) }

\* the part of the line t[i..j] before its first "/"
StemOf(t, q) ==
    LET k == CHOOSE n \in (q[1] - 1)..q[2] :
                 /\ \A m \in q[1]..n : t[m] # 47
                 /\ n = q[2] \/ t[n + 1] = 47
    IN  SubSeq(t, q[1], k)

\* the first line is a count: nothing but digits
IsCountLine(t, q) ==
    /\ q[1] = 1
    /\ q[2] >= 1
    /\ \A k \in 1..q[2] : t[k] \in 48..57

\* the entries the file lists, by the rules of the loader
ListedWords(t) ==
    { w \in { NormalForm(StemOf(t, q)) :
                q \in {r \in LineSpans(t) : ~IsCountLine(t, r)} } :
        Len(w) > 0 /\ \A i \in 1..Len(w) : IsAZ(w[i]) }

\* C10: for a file that decodes under a listed encoding, load_base_words
\* returns the strictly ascending list of exactly the entries of its lines:
\* the text before the first "/", trimmed and lowercased, when it is a
\* non-empty string of a-z; the first line is dropped when it is a count.
C10_LoadedWordsExact ==
    (lb_pc = "done" /\ LbDecodes) =>
        /\ Range(lb_result) = ListedWords(LbText)
        /\ \A i \in 1..(Len(lb_result) - 1) : LexBefore(lb_result[i], lb_result[i + 1])
        /\ \A i \in 1..Len(lb_result) :
              Len(lb_result[i]) > 0 /\ \A k \in 1..Len(lb_result[i]) : IsAZ(lb_result[i][k])

\* a file with a count line and one stem twice (other flags or other
\* case), read to the end
C10_Witness ==
    /\ lb_pc = "done"
    /\ LbDecodes
    /\ Cardinality(LineSpans(LbText)) = 3
    /\ Len(lb_lines) = 2
    /\ lb_lines[1] # lb_lines[2]
    /\ Len(lb_result) = 1
    /\ \A i \in 1..2 : AsciiMatch(Token(lb_lines[i]))

\* a file that utf-8 does not decode, with a line that is no entry
C10_WitnessSecondEncoding ==
    /\ lb_pc = "done"
    /\ LbDecodes
    /\ lb_tried = 1
    /\ Len(lb_result) = 1
    /\ \E i \in 1..Len(lb_lines) : ~AsciiMatch(Token(lb_lines[i]))

---------------------------------------------------------------------------
(* Claims about solve and the prefilter.                                   *)

\* w is a candidate, by the rules of the prefilter, for the puzzle
\* (letters, m) and the settings min_len, filter, blacklist
IsCandidate(w, letters, m, min_len, filter, blacklist) ==
    /\ w \notin blacklist
    /\ \E i \in 1..Len(w) : w[i] = m
    /\ \A i \in 1..Len(w) : w[i] \in letters
    /\ Len(w) >= min_len
    /\ filter =>
         /\ ~\E i \in 1..(Len(w) - 2) : w[i] = w[i + 1] /\ w[i + 1] = w[i + 2]
         /\ ~(/\ Len(w) % 2 = 0
              /\ Len(w) <= 8
              /\ \A i \in 1..(Len(w) \div 2) : w[i] = w[i + Len(w) \div 2])

\* the base words among the first n that are no candidates
MRejected(n) ==
    LET letters == LettersOf(m_allowed)
        m == NormalForm(m_mandatory)[1]
    IN  { m_base_words[i] : i \in { k \in 1..n :
            ~IsCandidate(m_base_words[k], letters, m, m_min_len, m_filter, m_blacklist) } }

\* the candidates among the first n base words, in their order
MCandidates(n) ==
    LET letters == LettersOf(m_allowed)
        m == NormalForm(m_mandatory)[1]
    IN  SelectSeq(SubSeq(m_base_words, 1, n),
                  LAMBDA w : IsCandidate(w, letters, m, m_min_len, m_filter, m_blacklist))

\* solve has accepted its arguments
MPastChecks ==
    \/ m_pc \in {"prefilter", "report", "returned"}
    \/ m_pc = "exit" /\ m_stderr \in {"none", "traceback"}

\* C6: in solve the candidates are, in the order of the base word list,
\* exactly the base words that are not blacklisted, contain the mandatory
\* letter, use only allowed letters and pass the one check the toggle
\* selects: looks_reasonable when it is on, the minimum length when off.
C6_PrefilterExact ==
    MPastChecks =>
        /\ ValidPair(m_allowed, m_mandatory)
        /\ m_candidates = MCandidates(m_bi)

\* with the heuristic on: a kept word, and an 8-letter word of two equal
\* halves dropped although it has the letters and the length
C6_Witness ==
    /\ m_pc = "report"
    /\ m_filter
    /\ Len(m_base_words) = 2
    /\ Len(m_candidates) = 1
    /\ \E i \in 1..2 :
          /\ Len(m_base_words[i]) = 8
          /\ IsCandidate(m_base_words[i], LettersOf(m_allowed),
                         NormalForm(m_mandatory)[1], m_min_len, FALSE, m_blacklist)
          /\ m_base_words[i] \notin Range(m_candidates)

\* with the heuristic off: a word with a letter three times in a row and a
\* word of two equal halves are both candidates
C6_WitnessToggleOff ==
    /\ m_pc = "report"
    /\ ~m_filter
    /\ Len(m_candidates) = 2
    /\ \E i \in 1..2 : m_candidates[i][2] = m_candidates[i][3]
                       /\ m_candidates[i][3] = m_candidates[i][4]
    /\ \E i \in 1..2 : Len(m_candidates[i]) = 8

\* the text p is the words of ws, each followed by a line feed
RECURSIVE IsPayloadOf(_, _)
IsPayloadOf(p, ws) ==
    IF ws = <<>> THEN p = <<>>
    ELSE /\ Len(p) >= Len(ws[1]) + 1
         /\ SubSeq(p, 1, Len(ws[1])) = ws[1]
         /\ p[Len(ws[1]) + 1] = 10
         /\ IsPayloadOf(SubSeq(p, Len(ws[1]) + 2, Len(p)), Tail(ws))

\* w is a line of the text p
IsLineOf(w, p) ==
    \E i \in 1..Len(p) :
        /\ i + Len(w) <= Len(p)
        /\ SubSeq(p, i, i + Len(w) - 1) = w
        /\ p[i + Len(w)] = 10
        /\ i = 1 \/ p[i - 1] = 10

\* C8: in a run of solve hunspell is started at most once, only when the
\* prefilter has been through all base words, with exactly the candidates
\* as its input; a base word the prefilter rejects is never sent and never
\* valid; for no candidates hunspell is not started and nothing is
\* accepted.
C8_OracleOnceAfterPrefilter ==
    /\ m_launches <= 1
    /\ m_launches = 1 =>
         /\ m_bi = Len(m_base_words)
         /\ m_pc \in {"report", "returned", "exit"}
         /\ IsPayloadOf(m_payload, m_candidates)
    /\ MPastChecks =>
         \A w \in MRejected(Len(m_base_words)) :
             /\ ~IsLineOf(w, m_payload)
             /\ w \notin m_accepted
             /\ w \notin Range(m_valid)
    /\ (m_pc \in {"report", "returned"} /\ m_candidates = <<>>) =>
         /\ m_launches = 0
         /\ m_payload = <<>>
         /\ m_accepted = {}
         /\ m_valid = <<>>

\* hunspell has accepted every line it was sent, one of them is valid, and
\* the 8-letter word of two halves that the heuristic dropped is not
C8_Witness ==
    /\ m_pc = "returned"
    /\ m_filter
    /\ m_launches = 1
    /\ m_stdout = W(<<"*","nl","*","nl">>)
    /\ Len(m_valid) = 1
    /\ \E i \in 1..Len(m_base_words) :
          /\ Len(m_base_words[i]) = 8
          /\ m_base_words[i] \notin Range(m_valid)

---------------------------------------------------------------------------
(* Claims about hunspell_filter_valid.                                     *)

\* the lines of t, in order, without their ends; ends are the characters
\* that end a line
LinesOf(t, ends) ==
    LET spans == { q \in (1..Len(t)) \X (0..Len(t)) :
                     /\ q[1] <= q[2] + 1
                     /\ \A k \in q[1]..q[2] : t[k] \notin ends
                     /\ q[2] = Len(t) \/ t[q[2] + 1] \in ends
                     /\ \/ q[1] = 1
                        \/ /\ t[q[1] - 1] \in ends
                           /\ ~(t[q[1] - 1] = 13 /\ t[q[1]] = 10) }
        nth(k) == CHOOSE q \in spans : Cardinality({r \in spans : r[1] < q[1]}) = k - 1
    IN  [k \in 1..Cardinality(spans) |-> SubSeq(t, nth(k)[1], nth(k)[2])]

\* the lines hunspell wrote
OutLines == LinesOf(Decode(m_stdout, "utf-8", "ignore").text,
                    {10, 11, 12, 13, 28, 29, 30, 133})

IsBlank(line) == \A i \in 1..Len(line) : IsSpace(line[i])

\* the first character of the line that is not whitespace is c
FirstVisibleIs(line, c) ==
    \E k \in 1..Len(line) : line[k] = c /\ \A j \in 1..(k - 1) : IsSpace(line[j])

\* the result lines as the claim has them: the lines that are not empty
\* and do not begin with "@"
ResultLinesAsClaimed ==
    SelectSeq(OutLines, LAMBDA line : line # <<>> /\ line[1] # 64)

\* the result lines as the code has them: the lines that are not blank and
\* do not begin with "@"
ResultLinesAmended ==
    SelectSeq(OutLines, LAMBDA line : ~IsBlank(line) /\ line[1] # 64)

\* hunspell_filter_valid has run hunspell and returned
MOracleReturned == m_pc = "report" /\ m_launches = 1

---------------------------------------------------------------------------
(* Claims about a run of main.                                             *)

\* the two arguments are no valid constraint pair
MMalformed == Len(m_argv) = 2 /\ ~ValidPair(m_argv[1], m_argv[2])

\* C5, for a run of main with a dictionary in place: malformed constraints
\* end the run with the input error, and until then no word list is
\* loaded, no base word examined and hunspell not started.
C5_InputErrorBeforeWordList ==
    (m_pc = "exit" /\ MMalformed /\ m_env.dict_found /\ m_env.readable) =>
        /\ m_stderr = "message"
        /\ m_status = 1
        /\ lb_pc = "idle"
        /\ m_base_words = <<>>
        /\ m_bi = 0
        /\ m_launches = 0

\* what does hold in main: the input error ends the run before the
\* prefilter and hunspell, but after the word list is loaded
C5_MainLoadsFirst ==
    (m_pc = "exit" /\ MMalformed /\ m_env.dict_found /\ m_env.readable) =>
        /\ m_stderr = "message"
        /\ m_status = 1
        /\ lb_pc = "done"
        /\ m_bi = 0
        /\ m_launches = 0

\* C5, for solve_candidates: ValueError before any candidate is looked at
C5_SolverRaisesFirst ==
    (sc_pc # "start" /\ ~ValidPair(sc_allowed, sc_mandatory)) =>
        /\ sc_pc = "raised"
        /\ sc_error # "none"
        /\ sc_idx = 0
        /\ sc_valid = <<>>

\* the run met a fatal error
MFatal ==
    \/ ~m_env.dict_found
    \/ ~m_env.readable
    \/ Len(m_argv) # 2
    \/ MMalformed
    \/ ~m_env.hunspell /\ m_candidates # <<>>

\* C9: a run of main that meets a fatal error ends with a status that is
\* not zero and a text of its own, never a traceback; a run that meets
\* none ends with status zero after the report.
C9_FatalErrorsExplained ==
    m_pc = "exit" =>
        IF MFatal
        THEN m_status # 0 /\ m_stderr \in {"usage", "message"}
        ELSE m_status = 0 /\ m_stderr = "none"

\* what does hold: every fatal error ends the run with status 1, once, and
\* a good run with status 0
C9_FatalErrorsNonZero ==
    m_pc = "exit" =>
        IF MFatal
        THEN m_status = 1 /\ m_stderr \in {"usage", "message", "traceback"}
        ELSE m_status = 0 /\ m_stderr = "none"


===========================================================================
